---- MODULE Spec2Model ----
(***************************************************************************)
(* Model of the static-asset server's middleware chain (main.go):          *)
(*   loggingMiddleware -> gzipMiddleware -> base handler                   *)
(* The base handler is the environment: it sets headers, calls WriteHeader *)
(* and Write on the writer it is given, and returns.  The real             *)
(* http.ResponseWriter is modelled by the calls it receives and by the     *)
(* single-commit rule of net/http.  Byte sequences and header values are   *)
(* strings.                                                                *)
(***************************************************************************)
EXTENDS Naturals, Sequences, FiniteSets, TLC

(* ------------------------------ bounds --------------------------------- *)

\* Calls (header sets, WriteHeader, Write) one handler makes on its writer.
MaxCalls == 3

\* Calls one handler makes in the concurrent specification.
PoolCalls == 2

\* Requests in flight in the concurrent specification.
NReq == 2

Reqs == 1..NReq

\* Compressor instances that can exist: one per request is all that
\* gzipWriterPool.New can ever be asked for at the same time.
Gzs == 1..NReq

\* Accept-Encoding values of a request ("" is an absent header).
AcceptEncodings == {"", "gzip", "deflate, gzip", "GZIP"}

\* Content-Type values the handler sets.
ContentTypes == {"text/plain", "TEXT/HTML", "image/png", "application/json"}

\* Status codes the handler passes to WriteHeader.
StatusCodes == {200, 404}

\* Slices the handler passes to Write.
Bodies == {"", "a", "bc"}

\* Outcomes of a Write on the real writer: delivered, or failed.
Outcomes == {TRUE, FALSE}

(* ------------------------------ strings -------------------------------- *)

UpperLetters == "ABCDEFGHIJKLMNOPQRSTUVWXYZ"

LowerLetters == "abcdefghijklmnopqrstuvwxyz"

CharAt(s, i) == SubSeq(s, i, i)

\* The lower-case letter of each upper-case ASCII letter.
LowerOf ==
    [c \in {CharAt(UpperLetters, i) : i \in 1..Len(UpperLetters)} |->
        CharAt(LowerLetters, CHOOSE i \in 1..Len(UpperLetters) : CharAt(UpperLetters, i) = c)]

\* unicode.ToLower on one ASCII character.
LowerChar(c) == IF c \in DOMAIN LowerOf THEN LowerOf[c] ELSE c

RECURSIVE ToLower(_)
\* strings.ToLower
ToLower(s) ==
    IF Len(s) = 0 THEN ""
    ELSE LowerChar(CharAt(s, 1)) \o ToLower(SubSeq(s, 2, Len(s)))

\* strings.HasPrefix
HasPrefix(s, prefix) ==
    Len(s) >= Len(prefix) /\ SubSeq(s, 1, Len(prefix)) = prefix

\* A faulty Contains: the match ignores case.
Contains_fold(s, substr) ==
    \E i \in 0..Len(s) :
        i + Len(substr) <= Len(s)
        /\ ToLower(SubSeq(s, i + 1, i + Len(substr))) = ToLower(substr)

\* strings.Contains
Contains(s, substr) ==
    \E i \in 0..Len(s) :
        i + Len(substr) <= Len(s) /\ SubSeq(s, i + 1, i + Len(substr)) = substr

(* ---------------------------- classification --------------------------- *)

compressibleTypes ==
    << "text/",
       "application/json",
       "application/javascript",
       "application/xml",
       "application/xhtml+xml",
       "image/svg+xml" >>

shouldCompress(contentType) ==
    LET ct == ToLower(contentType)
    IN  \E i \in 1..Len(compressibleTypes) : HasPrefix(ct, compressibleTypes[i])

(* ------------------------------- headers ------------------------------- *)

\* http.Header is map[string][]string; <<>> is "no entry".
HeaderKeys == {"Content-Type", "Content-Encoding", "Content-Length"}

EmptyHeader == [k \in HeaderKeys |-> <<>>]

\* Header.Get: the first value, or "" when there is no entry.
Header_Get(h, k) == IF h[k] = <<>> THEN "" ELSE h[k][1]

\* Header.Set
Header_Set(h, k, v) == [h EXCEPT ![k] = <<v>>]

\* Header.Del
Header_Del(h, k) == [h EXCEPT ![k] = <<>>]

(* ------------------------------ call records --------------------------- *)

\* One call on a writer.  op is "Set", "Del", "WriteHeader" or "Write";
\* code is the WriteHeader argument; k, v the header key and value; v is
\* also the byte slice of a Write; n, ok are what Write returned
\* (ok is err == nil).
Call(op, code, k, v, n, ok) ==
    [op |-> op, code |-> code, k |-> k, v |-> v, n |-> n, ok |-> ok]

SetCall(k, v) == Call("Set", 0, k, v, 0, TRUE)

DelCall(k) == Call("Del", 0, k, "", 0, TRUE)

WriteHeaderCall(code) == Call("WriteHeader", code, "", "", 0, TRUE)

WriteCall(b, n, ok) == Call("Write", 0, "", b, n, ok)

(* ---------------------------- the real writer -------------------------- *)

\* The http.ResponseWriter handed to loggingMiddleware.
\*   header       its header map (w.Header())
\*   wroteHeader  the status line is committed
\*   status       the committed status code
\*   sent         the header map as it was when the status was committed
\*   calls        every call received, in order
NewReal ==
    [header |-> EmptyHeader, wroteHeader |-> FALSE, status |-> 0,
     sent |-> EmptyHeader, calls |-> <<>>]

\* A chain is the per-request object graph: the real writer rw, the
\* statusWriter sw, the gzipResponseWriter grw, and ret, the (n, err)
\* the last Write returned to its caller.
NoRet == [n |-> 0, ok |-> TRUE]

Real_Commit(rw, code) ==
    IF rw.wroteHeader THEN rw
    ELSE [rw EXCEPT !.wroteHeader = TRUE, !.status = code, !.sent = rw.header]

\* ResponseWriter.WriteHeader: a second call is ignored by net/http.
Real_WriteHeader(c, code) ==
    [c EXCEPT !.rw = [Real_Commit(c.rw, code) EXCEPT
                         !.calls = Append(@, WriteHeaderCall(code))]]

\* ResponseWriter.Write: commits 200 when nothing is committed yet; the
\* bytes are delivered (ok) or the connection fails.
Real_Write(c, b, ok) ==
    LET n == IF ok THEN Len(b) ELSE 0
    IN  [c EXCEPT !.rw = [Real_Commit(c.rw, 200) EXCEPT
                             !.calls = Append(@, WriteCall(b, n, ok))],
                  !.ret = [n |-> n, ok |-> ok]]

Real_HeaderSet(c, k, v) ==
    [c EXCEPT !.rw.header = Header_Set(@, k, v),
              !.rw.calls = Append(@, SetCall(k, v))]

Real_HeaderDel(c, k) ==
    [c EXCEPT !.rw.header = Header_Del(@, k),
              !.rw.calls = Append(@, DelCall(k))]

(* ------------------------------ statusWriter --------------------------- *)

NewStatusWriter == [status |-> 200, wroteHeader |-> FALSE]

statusWriter_WriteHeader(c, code) ==
    LET c1 == IF ~c.sw.wroteHeader
              THEN [c EXCEPT !.sw.status = code, !.sw.wroteHeader = TRUE]
              ELSE c
    IN  Real_WriteHeader(c1, code)

\* statusWriter has no Write of its own: the embedded writer's is promoted.
statusWriter_Write(c, b, ok) == Real_Write(c, b, ok)

(* --------------------------- gzipResponseWriter ------------------------ *)

\* body "" is the nil slice: append(nil, b...) stays nil for an empty b and
\* is non-nil from the first byte on.
NewGzipResponseWriter ==
    [body |-> "", code |-> 0, wroteHeader |-> FALSE, passthrough |-> FALSE]

\* A faulty gzipResponseWriter_WriteHeader: a compressible response has
\* its status sent at once although its body is buffered.
gzipResponseWriter_WriteHeader_eager(c, code) ==
    IF c.grw.wroteHeader THEN c
    ELSE LET c1 == [c EXCEPT !.grw.wroteHeader = TRUE, !.grw.code = code]
             ct == Header_Get(c1.rw.header, "Content-Type")
         IN  IF shouldCompress(ct) THEN statusWriter_WriteHeader(c1, code)
             ELSE statusWriter_WriteHeader([c1 EXCEPT !.grw.passthrough = TRUE], code)

\* A faulty gzipResponseWriter_WriteHeader: no test of wroteHeader, every
\* call is a commit.
gzipResponseWriter_WriteHeader_again(c, code) ==
    LET c1 == [c EXCEPT !.grw.wroteHeader = TRUE, !.grw.code = code]
        ct == Header_Get(c1.rw.header, "Content-Type")
    IN  IF shouldCompress(ct) THEN c1
        ELSE statusWriter_WriteHeader([c1 EXCEPT !.grw.passthrough = TRUE], code)

gzipResponseWriter_WriteHeader(c, code) ==
    IF c.grw.wroteHeader THEN c
    ELSE LET c1 == [c EXCEPT !.grw.wroteHeader = TRUE, !.grw.code = code]
             ct == Header_Get(c1.rw.header, "Content-Type")
         IN  IF shouldCompress(ct) THEN c1
             ELSE statusWriter_WriteHeader([c1 EXCEPT !.grw.passthrough = TRUE], code)

\* A faulty gzipResponseWriter_Write: each Write picks its branch from the
\* Content-Type of the moment instead of the mode chosen at the commit.
gzipResponseWriter_Write_retype(c, b, ok) ==
    LET c1 == IF ~c.grw.wroteHeader
              THEN gzipResponseWriter_WriteHeader(c, 200)
              ELSE c
    IN  IF ~shouldCompress(Header_Get(c1.rw.header, "Content-Type"))
        THEN statusWriter_Write(c1, b, ok)
        ELSE [c1 EXCEPT !.grw.body = @ \o b,
                        !.ret = [n |-> Len(b), ok |-> TRUE]]

\* A faulty gzipResponseWriter_Write: a slice is put in front of the
\* buffer instead of behind it.
gzipResponseWriter_Write_prepend(c, b, ok) ==
    LET c1 == IF ~c.grw.wroteHeader
              THEN gzipResponseWriter_WriteHeader(c, 200)
              ELSE c
    IN  IF c1.grw.passthrough
        THEN statusWriter_Write(c1, b, ok)
        ELSE [c1 EXCEPT !.grw.body = b \o @,
                        !.ret = [n |-> Len(b), ok |-> TRUE]]

\* A faulty gzipResponseWriter_Write: pass-through reports len(b), nil
\* instead of what the real writer returned.
gzipResponseWriter_Write_lenb(c, b, ok) ==
    LET c1 == IF ~c.grw.wroteHeader
              THEN gzipResponseWriter_WriteHeader(c, 200)
              ELSE c
    IN  IF c1.grw.passthrough
        THEN [statusWriter_Write(c1, b, ok) EXCEPT !.ret = [n |-> Len(b), ok |-> TRUE]]
        ELSE [c1 EXCEPT !.grw.body = @ \o b,
                        !.ret = [n |-> Len(b), ok |-> TRUE]]

gzipResponseWriter_Write(c, b, ok) ==
    LET c1 == IF ~c.grw.wroteHeader
              THEN gzipResponseWriter_WriteHeader(c, 200)
              ELSE c
    IN  IF c1.grw.passthrough
        THEN statusWriter_Write(c1, b, ok)
        ELSE [c1 EXCEPT !.grw.body = @ \o b,
                        !.ret = [n |-> Len(b), ok |-> TRUE]]

(* ------------------------------ gzip.Writer ---------------------------- *)

\* A stand-in for the gzip format on strings: a magic header, the data
\* run-length encoded (count digit, then the character), and a trailer
\* holding the length of the uncompressed data.
Digits == "0123456789"

DigitOf(n) == CharAt(Digits, (n % 10) + 1)

ValueOf(d) == (CHOOSE i \in 1..Len(Digits) : CharAt(Digits, i) = d) - 1

IsDigit(d) == \E i \in 1..Len(Digits) : CharAt(Digits, i) = d

GzipHeader == "GZ"

TrailerMark == "|"

RECURSIVE RunLen(_, _)
\* Length of the run of character ch at the start of s.
RunLen(s, ch) ==
    IF Len(s) > 0 /\ CharAt(s, 1) = ch
    THEN 1 + RunLen(SubSeq(s, 2, Len(s)), ch)
    ELSE 0

RECURSIVE Deflate(_)
Deflate(s) ==
    IF Len(s) = 0 THEN ""
    ELSE LET ch == CharAt(s, 1)
             n  == RunLen(s, ch)
             k  == IF n > 9 THEN 9 ELSE n
         IN  DigitOf(k) \o ch \o Deflate(SubSeq(s, k + 1, Len(s)))

GzipTrailer(s) == TrailerMark \o DigitOf(Len(s))

RECURSIVE Repeat(_, _)
Repeat(ch, k) == IF k = 0 THEN "" ELSE ch \o Repeat(ch, k - 1)

RECURSIVE Inflate(_)
\* The data of a run-length encoded string, up to the trailer mark.
Inflate(z) ==
    IF Len(z) < 2 \/ ~IsDigit(CharAt(z, 1)) THEN ""
    ELSE Repeat(CharAt(z, 2), ValueOf(CharAt(z, 1))) \o Inflate(SubSeq(z, 3, Len(z)))

\* gzip.Reader: ok is FALSE for a stream without header, with a bad trailer
\* or cut short.
Gunzip(z) ==
    IF ~HasPrefix(z, GzipHeader) \/ Len(z) < Len(GzipHeader) + 2
    THEN [ok |-> FALSE, data |-> ""]
    ELSE LET payload == SubSeq(z, Len(GzipHeader) + 1, Len(z) - 2)
             trailer == SubSeq(z, Len(z) - 1, Len(z))
             data    == Inflate(payload)
         IN  [ok   |-> /\ trailer = GzipTrailer(data)
                       /\ Deflate(data) = payload,
              data |-> data]

\* gzip.NewWriterLevel(nil, gzip.DefaultCompression): bound to no writer.
\*   w            the request whose writer the instance is bound to (0: nil)
\*   buf          the data written since the last Reset
\*   wroteHeader, closed, err  as in compress/gzip
gzip_NewWriterLevel ==
    [w |-> 0, buf |-> "", wroteHeader |-> FALSE, closed |-> FALSE, err |-> FALSE]

\* A faulty gzip_Reset: the state is dropped but the instance stays bound
\* to the writer of its previous use.
gzip_Reset_norebind(z, w) ==
    [w |-> z.w, buf |-> "", wroteHeader |-> FALSE, closed |-> FALSE, err |-> FALSE]

\* Writer.Reset(w): all state dropped, bound to w.
gzip_Reset(z, w) ==
    [w |-> w, buf |-> "", wroteHeader |-> FALSE, closed |-> FALSE, err |-> FALSE]

\* Writer.Write(p) with c the chain of the bound writer: the header is
\* written lazily on the first Write; the data is kept by the compressor.
gzip_Write(z, c, p, ok) ==
    IF z.err THEN [z |-> z, c |-> c]
    ELSE LET hdr == ~z.wroteHeader
             c1  == IF hdr THEN statusWriter_Write(c, GzipHeader, ok) ELSE c
         IN  IF hdr /\ ~ok
             THEN [z |-> [z EXCEPT !.wroteHeader = TRUE, !.err = TRUE], c |-> c1]
             ELSE IF z.closed
             THEN [z |-> [z EXCEPT !.wroteHeader = TRUE, !.err = TRUE], c |-> c1]
             ELSE [z |-> [z EXCEPT !.wroteHeader = TRUE, !.buf = @ \o p], c |-> c1]

\* Writer.Close with c the chain of the bound writer: the compressed data,
\* then the trailer.  (Write always precedes Close here, so the header is
\* out or err is set.)
gzip_Close(z, c, ok1, ok2) ==
    IF z.err \/ z.closed THEN [z |-> z, c |-> c]
    ELSE LET c1 == statusWriter_Write(c, Deflate(z.buf), ok1)
             c2 == statusWriter_Write(c1, GzipTrailer(z.buf), ok2)
         IN  IF ~ok1 THEN [z |-> [z EXCEPT !.closed = TRUE, !.err = TRUE], c |-> c1]
             ELSE [z |-> [z EXCEPT !.closed = TRUE, !.err = ~ok2], c |-> c2]

(* -------------------------------- state -------------------------------- *)

VARIABLES
    pc,      \* pc[r]: where request r is in the middleware chain
    req,     \* req[r]: the request's Accept-Encoding header
    hw,      \* hw[r]: the writer the handler was given: "sw", "grw" ("" before)
    rw,      \* rw[r]: the real writer
    sw,      \* sw[r]: loggingMiddleware's statusWriter
    grw,     \* grw[r]: gzipMiddleware's gzipResponseWriter
    hist,    \* hist[r]: the calls the handler made on its writer, with results
    logged,  \* logged[r]: the status in the log record (0: none yet)
    gz,      \* gz[i]: compressor instance i
    made,    \* number of instances gzipWriterPool.New has made
    pool,    \* instances idle in gzipWriterPool
    held,    \* held[r]: the instance request r took from the pool (0: none)
    ops      \* ops[r]: the pool and compressor calls of r's flush step

vars == <<pc, req, hw, rw, sw, grw, hist, logged, gz, made, pool, held, ops>>

chainVars == <<rw, sw, grw>>

poolVars == <<gz, made, pool, held, ops>>

Chain(r) == [rw |-> rw[r], sw |-> sw[r], grw |-> grw[r], ret |-> NoRet]

SetChain(r, c) ==
    /\ rw' = [rw EXCEPT ![r] = c.rw]
    /\ sw' = [sw EXCEPT ![r] = c.sw]
    /\ grw' = [grw EXCEPT ![r] = c.grw]

Init ==
    /\ pc = [r \in Reqs |-> "idle"]
    /\ req = [r \in Reqs |-> ""]
    /\ hw = [r \in Reqs |-> ""]
    /\ rw = [r \in Reqs |-> NewReal]
    /\ sw = [r \in Reqs |-> NewStatusWriter]
    /\ grw = [r \in Reqs |-> NewGzipResponseWriter]
    /\ hist = [r \in Reqs |-> <<>>]
    /\ logged = [r \in Reqs |-> 0]
    /\ gz = [i \in Gzs |-> gzip_NewWriterLevel]
    /\ made = 0
    /\ pool = {}
    /\ held = [r \in Reqs |-> 0]
    /\ ops = [r \in Reqs |-> <<>>]

(* ------------------------------- actions ------------------------------- *)

\* loggingMiddleware, lines 31-33: a request arrives, the statusWriter is
\* made and the next handler (gzipMiddleware) is called with it.
loggingMiddleware(r, ae) ==
    /\ pc[r] = "idle"
    /\ req' = [req EXCEPT ![r] = ae]
    /\ sw' = [sw EXCEPT ![r] = NewStatusWriter]
    /\ pc' = [pc EXCEPT ![r] = "gzip"]
    /\ UNCHANGED <<hw, rw, grw, hist, logged, poolVars>>

\* gzipMiddleware, lines 72-78: without gzip in Accept-Encoding the handler
\* gets the writer the layer was given; otherwise a gzipResponseWriter.
gzipMiddleware(r) ==
    /\ pc[r] = "gzip"
    /\ IF ~Contains(req[r], "gzip")
       THEN /\ hw' = [hw EXCEPT ![r] = "sw"]
            /\ grw' = grw
       ELSE /\ hw' = [hw EXCEPT ![r] = "grw"]
            /\ grw' = [grw EXCEPT ![r] = NewGzipResponseWriter]
    /\ pc' = [pc EXCEPT ![r] = "handler"]
    /\ UNCHANGED <<req, rw, sw, hist, logged, poolVars>>

\* The handler sets a response header: Header() of both decorators is the
\* real writer's.
HandlerSetHeader(r, max, k, v) ==
    /\ pc[r] = "handler"
    /\ Len(hist[r]) < max
    /\ SetChain(r, Real_HeaderSet(Chain(r), k, v))
    /\ hist' = [hist EXCEPT ![r] = Append(@, SetCall(k, v))]
    /\ UNCHANGED <<pc, req, hw, logged, poolVars>>

\* The handler calls WriteHeader(code) on the writer it was given.
HandlerWriteHeader(r, max, code) ==
    /\ pc[r] = "handler"
    /\ Len(hist[r]) < max
    /\ SetChain(r, IF hw[r] = "grw"
                   THEN gzipResponseWriter_WriteHeader(Chain(r), code)
                   ELSE statusWriter_WriteHeader(Chain(r), code))
    /\ hist' = [hist EXCEPT ![r] = Append(@, WriteHeaderCall(code))]
    /\ UNCHANGED <<pc, req, hw, logged, poolVars>>

\* The handler calls Write(b) on the writer it was given; ok is the outcome
\* of the real writer's Write, should the call reach it.
HandlerWrite(r, max, b, ok) ==
    /\ pc[r] = "handler"
    /\ Len(hist[r]) < max
    /\ LET c == IF hw[r] = "grw"
                THEN gzipResponseWriter_Write(Chain(r), b, ok)
                ELSE statusWriter_Write(Chain(r), b, ok)
       IN  /\ SetChain(r, c)
           /\ hist' = [hist EXCEPT ![r] = Append(@, WriteCall(b, c.ret.n, c.ret.ok))]
    /\ UNCHANGED <<pc, req, hw, logged, poolVars>>

\* The handler returns: line 74 (no wrapper: gzipMiddleware returns too) or
\* line 78 (the flush decision follows).
HandlerReturn(r) ==
    /\ pc[r] = "handler"
    /\ pc' = [pc EXCEPT ![r] = IF hw[r] = "grw" THEN "L81" ELSE "log"]
    /\ UNCHANGED <<req, hw, chainVars, hist, logged, poolVars>>

\* A faulty FlushDecision: flush whenever the decorator did not pass
\* through.
FlushDecision_notpassthrough(r) ==
    /\ pc[r] = "L81"
    /\ pc' = [pc EXCEPT ![r] = IF ~grw[r].passthrough THEN "L82" ELSE "log"]
    /\ UNCHANGED <<req, hw, chainVars, hist, logged, poolVars>>

\* Line 81: flush only if something was buffered.
FlushDecision(r) ==
    /\ pc[r] = "L81"
    /\ pc' = [pc EXCEPT ![r] = IF grw[r].body # "" THEN "L82" ELSE "log"]
    /\ UNCHANGED <<req, hw, chainVars, hist, logged, poolVars>>

\* Line 82: w.Header().Set("Content-Encoding", "gzip")
SetContentEncoding(r) ==
    /\ pc[r] = "L82"
    /\ SetChain(r, Real_HeaderSet(Chain(r), "Content-Encoding", "gzip"))
    /\ pc' = [pc EXCEPT ![r] = "L83"]
    /\ UNCHANGED <<req, hw, hist, logged, poolVars>>

\* A faulty DelContentLength: the handler's Content-Length is left in.
DelContentLength_skip(r) ==
    /\ pc[r] = "L83"
    /\ pc' = [pc EXCEPT ![r] = "L84"]
    /\ UNCHANGED <<req, hw, chainVars, hist, logged, poolVars>>

\* Line 83: w.Header().Del("Content-Length")
DelContentLength(r) ==
    /\ pc[r] = "L83"
    /\ SetChain(r, Real_HeaderDel(Chain(r), "Content-Length"))
    /\ pc' = [pc EXCEPT ![r] = "L84"]
    /\ UNCHANGED <<req, hw, hist, logged, poolVars>>

\* A faulty SendStatus: the status is sent ahead of the header edits of
\* lines 82-83, which then come too late to be made.
SendStatus_early(r) ==
    /\ pc[r] = "L82"
    /\ SetChain(r, statusWriter_WriteHeader(Chain(r), grw[r].code))
    /\ pc' = [pc EXCEPT ![r] = "L86"]
    /\ UNCHANGED <<req, hw, hist, logged, poolVars>>

\* Line 84: w.WriteHeader(grw.code), w being the statusWriter.
SendStatus(r) ==
    /\ pc[r] = "L84"
    /\ SetChain(r, statusWriter_WriteHeader(Chain(r), grw[r].code))
    /\ pc' = [pc EXCEPT ![r] = "L86"]
    /\ UNCHANGED <<req, hw, hist, logged, poolVars>>

\* sync.Pool.Get: an idle instance, or a new one from New.
PoolChoices == pool \cup (IF made < Cardinality(Gzs) THEN {made + 1} ELSE {})

\* Line 86: gz := gzipWriterPool.Get()
PoolGet(r, i) ==
    /\ pc[r] = "L86"
    /\ i \in PoolChoices
    /\ IF i \in pool
       THEN /\ pool' = pool \ {i}
            /\ UNCHANGED <<gz, made>>
       ELSE /\ made' = made + 1
            /\ gz' = [gz EXCEPT ![i] = gzip_NewWriterLevel]
            /\ pool' = pool
    /\ held' = [held EXCEPT ![r] = i]
    /\ ops' = [ops EXCEPT ![r] = Append(@, "Get")]
    /\ pc' = [pc EXCEPT ![r] = "L87"]
    /\ UNCHANGED <<req, hw, chainVars, hist, logged>>

\* The writer gz.Reset is given at line 87: the layer's own w.
ResetTarget(r) == r

\* Line 87: gz.Reset(w)
GzReset(r) ==
    /\ pc[r] = "L87"
    /\ gz' = [gz EXCEPT ![held[r]] = gzip_Reset(@, ResetTarget(r))]
    /\ ops' = [ops EXCEPT ![r] = Append(@, "Reset")]
    /\ pc' = [pc EXCEPT ![r] = "L88"]
    /\ UNCHANGED <<req, hw, chainVars, hist, logged, made, pool, held>>

\* Line 88: gz.Write(grw.body).  The bytes go to the writer the instance is
\* bound to; a call through a nil writer panics and ends the request.
GzWrite(r, ok) ==
    /\ pc[r] = "L88"
    /\ LET i == held[r]
           t == gz[i].w
       IN  IF t \in Reqs
           THEN LET res == gzip_Write(gz[i], Chain(t), grw[r].body, ok)
                IN  /\ gz' = [gz EXCEPT ![i] = res.z]
                    /\ SetChain(t, res.c)
                    /\ pc' = [pc EXCEPT ![r] = "L89"]
           ELSE /\ pc' = [pc EXCEPT ![r] = "panic"]
                /\ UNCHANGED <<gz, chainVars>>
    /\ ops' = [ops EXCEPT ![r] = Append(@, "Write")]
    /\ UNCHANGED <<req, hw, hist, logged, made, pool, held>>

\* Line 89: gz.Close()
GzClose(r, ok1, ok2) ==
    /\ pc[r] = "L89"
    /\ LET i == held[r]
           t == gz[i].w
           res == gzip_Close(gz[i], Chain(t), ok1, ok2)
       IN  /\ gz' = [gz EXCEPT ![i] = res.z]
           /\ SetChain(t, res.c)
    /\ ops' = [ops EXCEPT ![r] = Append(@, "Close")]
    /\ pc' = [pc EXCEPT ![r] = "L90"]
    /\ UNCHANGED <<req, hw, hist, logged, made, pool, held>>

\* A faulty PoolPut: the instance is not given back.
PoolPut_leak(r) ==
    /\ pc[r] = "L90"
    /\ pc' = [pc EXCEPT ![r] = "log"]
    /\ UNCHANGED <<req, hw, chainVars, hist, logged, poolVars>>

\* Line 90: gzipWriterPool.Put(gz)
PoolPut(r) ==
    /\ pc[r] = "L90"
    /\ pool' = pool \cup {held[r]}
    /\ held' = [held EXCEPT ![r] = 0]
    /\ ops' = [ops EXCEPT ![r] = Append(@, "Put")]
    /\ pc' = [pc EXCEPT ![r] = "log"]
    /\ UNCHANGED <<req, hw, chainVars, hist, logged, gz, made>>

\* loggingMiddleware, line 34: the log record carries sw.status.
LogRecord(r) ==
    /\ pc[r] = "log"
    /\ logged' = [logged EXCEPT ![r] = sw[r].status]
    /\ pc' = [pc EXCEPT ![r] = "finish"]
    /\ UNCHANGED <<req, hw, chainVars, hist, poolVars>>

\* The handler chain has returned to the server: a response whose status
\* was never committed goes out with the transport's default, 200.
FinishRequest(r) ==
    /\ pc[r] = "finish"
    /\ rw' = [rw EXCEPT ![r] = Real_Commit(@, 200)]
    /\ pc' = [pc EXCEPT ![r] = "done"]
    /\ UNCHANGED <<req, hw, sw, grw, hist, logged, poolVars>>

(* ---------------------------- specifications --------------------------- *)

\* One request, the handler free to make any MaxCalls calls.
First == 1

Next ==
    \/ \E ae \in AcceptEncodings : loggingMiddleware(First, ae)
    \/ gzipMiddleware(First)
    \/ \E v \in ContentTypes : HandlerSetHeader(First, MaxCalls, "Content-Type", v)
    \/ HandlerSetHeader(First, MaxCalls, "Content-Length", "3")
    \/ HandlerSetHeader(First, MaxCalls, "Content-Encoding", "br")
    \/ \E code \in StatusCodes : HandlerWriteHeader(First, MaxCalls, code)
    \/ \E b \in Bodies, ok \in Outcomes : HandlerWrite(First, MaxCalls, b, ok)
    \/ HandlerReturn(First)
    \/ FlushDecision(First)
    \/ SetContentEncoding(First)
    \/ DelContentLength(First)
    \/ SendStatus(First)
    \/ \E i \in Gzs : PoolGet(First, i)
    \/ GzReset(First)
    \/ \E ok \in Outcomes : GzWrite(First, ok)
    \/ \E ok1 \in Outcomes, ok2 \in Outcomes : GzClose(First, ok1, ok2)
    \/ PoolPut(First)
    \/ LogRecord(First)
    \/ FinishRequest(First)

Spec == Init /\ [][Next]_vars

\* NReq concurrent requests that accept gzip; each handler makes up to
\* PoolCalls calls: it sets a compressible Content-Type first or not at
\* all, and writes slices of a body of its own (request 1 writes "a",
\* request 2 "b", ...), in any interleaving with the other requests' steps.
\* A Write on the real writer can fail where the compressor writes its
\* header, which leaves the instance in its error state.
PoolBody(r) == CharAt(LowerLetters, r)

NextPool ==
    \E r \in Reqs :
        \/ loggingMiddleware(r, "gzip")
        \/ gzipMiddleware(r)
        \/ HandlerSetHeader(r, 1, "Content-Type", "text/plain")
        \/ HandlerWrite(r, PoolCalls, PoolBody(r), TRUE)
        \/ HandlerReturn(r)
        \/ FlushDecision(r)
        \/ SetContentEncoding(r)
        \/ DelContentLength(r)
        \/ SendStatus(r)
        \/ \E i \in Gzs : PoolGet(r, i)
        \/ GzReset(r)
        \/ \E ok \in Outcomes : GzWrite(r, ok)
        \/ GzClose(r, TRUE, TRUE)
        \/ PoolPut(r)
        \/ LogRecord(r)
        \/ FinishRequest(r)

SpecPool == Init /\ [][NextPool]_vars

(* ------------------------- vocabulary of the claims -------------------- *)

\* The request's Accept-Encoding has "gzip" somewhere in it.
AcceptsGzip(ae) ==
    \E i \in 1..Len(ae) : i + 3 <= Len(ae) /\ SubSeq(ae, i, i + 3) = "gzip"

\* The compressible MIME-type prefixes of the specification.
CompressiblePrefixes ==
    {"text/", "application/json", "application/javascript", "application/xml",
     "application/xhtml+xml", "image/svg+xml"}

IsCompressible(ct) ==
    LET lower == ToLower(ct)
    IN  \E q \in CompressiblePrefixes : HasPrefix(lower, q)

\* Status-setting attempts of a handler: WriteHeader calls and body Writes.
Attempts(h) == {i \in 1..Len(h) : h[i].op \in {"WriteHeader", "Write"}}

Committed(h) == Attempts(h) # {}

FirstAttempt(h) == CHOOSE i \in Attempts(h) : \A j \in Attempts(h) : i <= j

\* The code of the first attempt: explicit, or the implicit 200 of a Write.
FirstCode(h) ==
    LET c == h[FirstAttempt(h)]
    IN  IF c.op = "WriteHeader" THEN c.code ELSE 200

RECURSIVE HeaderAfter(_, _)
\* The header map after the handler's header calls among h[1..n].
HeaderAfter(h, n) ==
    IF n = 0 THEN EmptyHeader
    ELSE LET prev == HeaderAfter(h, n - 1)
         IN  IF h[n].op = "Set" THEN Header_Set(prev, h[n].k, h[n].v)
             ELSE IF h[n].op = "Del" THEN Header_Del(prev, h[n].k)
             ELSE prev

\* Content-Type at the moment of the first status commit.
TypeAtCommit(h) == Header_Get(HeaderAfter(h, FirstAttempt(h)), "Content-Type")

RECURSIVE Select(_, _)
\* The calls of a log whose op is in the set ops, in order.
Select(calls, opset) ==
    IF calls = <<>> THEN <<>>
    ELSE IF Head(calls).op \in opset
         THEN <<Head(calls)>> \o Select(Tail(calls), opset)
         ELSE Select(Tail(calls), opset)

RECURSIVE Bytes(_)
\* The slices of the Write calls of a log, concatenated in call order.
Bytes(calls) ==
    IF calls = <<>> THEN ""
    ELSE (IF Head(calls).op = "Write" THEN Head(calls).v ELSE "") \o Bytes(Tail(calls))

RECURSIVE Delivered(_)
\* The bytes of the Write calls of a log that did not fail.
Delivered(calls) ==
    IF calls = <<>> THEN ""
    ELSE (IF Head(calls).op = "Write" /\ Head(calls).ok THEN Head(calls).v ELSE "")
         \o Delivered(Tail(calls))

RECURSIVE Unwrapped(_, _)
\* The chain after the handler's calls h, made on a statusWriter directly:
\* the response without the compression layer.
Unwrapped(c, h) ==
    IF h = <<>> THEN c
    ELSE LET e == Head(h)
             c1 == IF e.op = "Set" THEN Real_HeaderSet(c, e.k, e.v)
                   ELSE IF e.op = "WriteHeader" THEN statusWriter_WriteHeader(c, e.code)
                   ELSE statusWriter_Write(c, e.v, e.ok)
         IN  Unwrapped(c1, Tail(h))

FreshChain ==
    [rw |-> NewReal, sw |-> NewStatusWriter, grw |-> NewGzipResponseWriter, ret |-> NoRet]

RECURSIVE Forwarded(_, _)
\* The handler's calls as pass-through mode hands them on: an implicit
\* first commit made explicit, later WriteHeader calls dropped.
Forwarded(h, committed) ==
    IF h = <<>> THEN <<>>
    ELSE LET e == Head(h)
         IN  IF e.op = "WriteHeader"
             THEN (IF committed THEN <<>> ELSE <<e>>) \o Forwarded(Tail(h), TRUE)
             ELSE IF e.op = "Write"
             THEN (IF committed THEN <<e>> ELSE <<WriteHeaderCall(200), e>>)
                  \o Forwarded(Tail(h), TRUE)
             ELSE <<e>> \o Forwarded(Tail(h), committed)

\* gzipMiddleware has returned to loggingMiddleware.
Returned(r) == pc[r] \in {"log", "finish", "done"}

\* The handler of r is running or has run.
Serving(r) == pc[r] \notin {"idle", "gzip"}

\* The flush step of r has sent the status.
StatusSent(r) == pc[r] \in {"L86", "L87", "L88", "L89", "L90"} \/ (Returned(r) /\ ops[r] # <<>>)

(* -------------------------------- claims ------------------------------- *)

\* C1: only the first status-setting attempt takes effect: once the request
\* is done, the status the real writer committed is the code of the
\* handler's first attempt (explicit WriteHeader or the implicit 200 of a
\* first Write), with or without gzip.
C1_SingleStatusCommit ==
    \A r \in Reqs :
        (pc[r] = "done" /\ Committed(hist[r])) => rw[r].status = FirstCode(hist[r])

\* C2: when the request accepts gzip and the first status commit happens
\* with a compressible Content-Type, the recorded code has been sent to the
\* real writer by the time gzipMiddleware returns, whatever the handler
\* wrote afterwards (also nothing, or only empty slices).
C2_StatusPreserved ==
    \A r \in Reqs :
        (/\ Returned(r)
         /\ AcceptsGzip(req[r])
         /\ Committed(hist[r])
         /\ IsCompressible(TypeAtCommit(hist[r])))
        => /\ rw[r].wroteHeader
           /\ rw[r].status = FirstCode(hist[r])

\* C3: when the request accepts gzip and Content-Type at the first status
\* commit has a compressible prefix, the response is compressed: by the
\* time gzipMiddleware returns the flush step has run, Content-Encoding is
\* gzip, and every byte the real writer got came from the compressor.
C3_CompressibleIsCompressed ==
    \A r \in Reqs :
        (/\ Returned(r)
         /\ AcceptsGzip(req[r])
         /\ Committed(hist[r])
         /\ IsCompressible(TypeAtCommit(hist[r])))
        => /\ ops[r] = <<"Get", "Reset", "Write", "Close", "Put">>
           /\ rw[r].header["Content-Encoding"] = <<"gzip">>
           /\ HasPrefix(GzipHeader \o Deflate(Bytes(hist[r])) \o GzipTrailer(Bytes(hist[r])),
                        Delivered(rw[r].calls))

\* The claim's case of C4: gzip accepted, and Content-Type at the first
\* status commit has no compressible prefix.
PassThroughCase(r) ==
    /\ Serving(r)
    /\ AcceptsGzip(req[r])
    /\ Committed(hist[r])
    /\ ~IsCompressible(TypeAtCommit(hist[r]))

\* C4 (as stated): in the pass-through case the real writer sees exactly
\* the calls it would see without the compression layer.
C4_SameCallsAsWithoutLayer ==
    \A r \in Reqs :
        PassThroughCase(r) => rw[r].calls = Unwrapped(FreshChain, hist[r]).rw.calls

\* C4 (amended): in the pass-through case the status is forwarded at the
\* first commit and every Write verbatim and in order, each Write returns
\* what the real writer returned, the layer touches no header and uses no
\* compressor; the real writer ends with the status, headers and body it
\* has without the layer, but not with the same calls: an implicit commit
\* arrives as an explicit WriteHeader(200) ahead of the first Write, and
\* WriteHeader calls after the first commit are not forwarded.
C4_PassThrough ==
    \A r \in Reqs :
        PassThroughCase(r) =>
            LET ref == Unwrapped(FreshChain, hist[r]).rw
            IN  /\ rw[r].calls = Forwarded(hist[r], FALSE)
                /\ Select(rw[r].calls, {"Write"}) = Select(hist[r], {"Write"})
                /\ Select(rw[r].calls, {"WriteHeader"}) = <<WriteHeaderCall(FirstCode(hist[r]))>>
                /\ rw[r].header = ref.header
                /\ rw[r].wroteHeader = ref.wroteHeader
                /\ rw[r].status = ref.status
                /\ rw[r].sent = ref.sent
                /\ ops[r] = <<>>

\* Witness of C4: a finished pass-through response whose handler had a
\* Write fail on the real writer, called WriteHeader again after the
\* commit, and set Content-Length.
C4_Witness ==
    \E r \in Reqs :
        /\ pc[r] = "done"
        /\ PassThroughCase(r)
        /\ \E i \in 1..Len(hist[r]) : hist[r][i].op = "Write" /\ ~hist[r][i].ok
        /\ \E j \in 1..Len(hist[r]) :
               j > FirstAttempt(hist[r]) /\ hist[r][j].op = "WriteHeader"

\* C5: a request whose Accept-Encoding has no "gzip" in it (or is absent)
\* has its handler called with the writer the layer was given: every call
\* of the handler reaches the real writer as made, the layer sets no
\* Content-Encoding, removes no Content-Length, uses no compressor, and the
\* bytes delivered are the bytes written, in order.
C5_Negotiation ==
    \A r \in Reqs :
        (Serving(r) /\ ~AcceptsGzip(req[r])) =>
            /\ hw[r] = "sw"
            /\ grw[r] = NewGzipResponseWriter
            /\ rw[r].calls = hist[r]
            /\ rw[r].header = HeaderAfter(hist[r], Len(hist[r]))
            /\ rw[r].header["Content-Encoding"] # <<"gzip">>
            /\ Bytes(rw[r].calls) = Bytes(hist[r])
            /\ ops[r] = <<>>

\* Witness of C5: a finished request without gzip whose handler set a
\* compressible Content-Type and a Content-Length and delivered a body.
C5_Witness ==
    \E r \in Reqs :
        /\ pc[r] = "done"
        /\ ~AcceptsGzip(req[r])
        /\ IsCompressible(Header_Get(rw[r].header, "Content-Type"))
        /\ rw[r].header["Content-Length"] # <<>>
        /\ Delivered(rw[r].calls) # ""

\* Every Write of a log was delivered.
AllOk(calls) == \A i \in 1..Len(calls) : calls[i].ok

\* The decorator of r is in buffering mode.
Buffering(r) == hw[r] = "grw" /\ grw[r].wroteHeader /\ ~grw[r].passthrough

\* The flush step of r has closed its compressor.
Compressed(r) == pc[r] = "L90" \/ (Returned(r) /\ ops[r] # <<>>)

\* C6: for a compressed response the bytes handed to the compressor are
\* the slices the handler passed to Write, concatenated in call order, and
\* decompressing what the real writer received gives exactly the body the
\* same calls deliver without gzip.
C6_RoundTrip ==
    \A r \in Reqs :
        Buffering(r) =>
            /\ grw[r].body = Bytes(hist[r])
            /\ (pc[r] \in {"L89", "L90"} /\ ~gz[held[r]].err)
                   => gz[held[r]].buf = Bytes(hist[r])
            /\ (Compressed(r) /\ AllOk(rw[r].calls))
                   => /\ Gunzip(Delivered(rw[r].calls)).ok
                      /\ Gunzip(Delivered(rw[r].calls)).data
                             = Delivered(Unwrapped(FreshChain, hist[r]).rw.calls)

\* Witness of C6: a finished compressed response, fully delivered, whose
\* handler wrote "a" and then "bc".
C6_Witness ==
    \E r \in Reqs :
        /\ pc[r] = "done"
        /\ Compressed(r)
        /\ AllOk(rw[r].calls)
        /\ Select(hist[r], {"Write"}) = <<WriteCall("a", 1, TRUE), WriteCall("bc", 2, TRUE)>>

\* C7: for every compressed response, the header set the real writer
\* commits when the layer sends the status has Content-Encoding gzip and no
\* Content-Length, whatever the handler had put there.
C7_HeaderConsistency ==
    \A r \in Reqs :
        StatusSent(r) =>
            /\ rw[r].wroteHeader
            /\ Select(rw[r].calls, {"WriteHeader", "Write"})[1] = WriteHeaderCall(grw[r].code)
            /\ rw[r].sent["Content-Encoding"] = <<"gzip">>
            /\ rw[r].sent["Content-Length"] = <<>>

\* Witness of C7: the status of a compressed response has been sent and
\* the handler had set Content-Length.
C7_Witness ==
    \E r \in Reqs :
        /\ StatusSent(r)
        /\ \E i \in 1..Len(hist[r]) : hist[r][i] = SetCall("Content-Length", "3")

\* C8: a compressor instance is held by at most one request at a time and
\* is not in the pool while held; once reset it is bound to the holder's
\* own writer and fed the holder's own buffer; the Writes a buffering
\* request's real writer receives are the gzip stream of its own buffer
\* (cut short only by a failed Write), whatever the other requests do.
C8_PoolSafety ==
    /\ \A r1 \in Reqs, r2 \in Reqs :
           (r1 # r2 /\ held[r1] # 0) => held[r1] # held[r2]
    /\ \A r \in Reqs :
           /\ held[r] # 0 => held[r] \notin pool
           /\ pc[r] \in {"L88", "L89", "L90"} => gz[held[r]].w = r
           /\ (pc[r] \in {"L89", "L90"} /\ ~gz[held[r]].err)
                  => gz[held[r]].buf = grw[r].body
           /\ pc[r] # "panic"
           /\ Buffering(r) =>
                  LET out == Select(rw[r].calls, {"Write"})
                      want == <<GzipHeader, Deflate(grw[r].body), GzipTrailer(grw[r].body)>>
                  IN  /\ Len(out) <= 3
                      /\ \A i \in 1..Len(out) : out[i].v = want[i]
                      /\ (Compressed(r) /\ AllOk(out)) => Len(out) = 3

\* Witness of C8: two requests are in their flush steps at the same time,
\* each holding a compressor.
C8_Witness ==
    \E r1 \in Reqs, r2 \in Reqs :
        /\ r1 # r2
        /\ pc[r1] = "L89" /\ pc[r2] = "L89"
        /\ held[r1] # 0 /\ held[r2] # 0
        /\ grw[r1].body # grw[r2].body

\* C9: the status in the log record is the status the real writer sent.
C9_LoggedStatus ==
    \A r \in Reqs : pc[r] = "done" => logged[r] = rw[r].status

\* C10: within a compressed response the real writer sees Content-Encoding
\* set and Content-Length removed before the status, and the status before
\* any compressed byte.
C10_FlushOrder ==
    \A r \in Reqs :
        Buffering(r) =>
            LET cs == rw[r].calls
            IN  /\ \A i \in 1..Len(cs) :
                       cs[i].op = "Write" =>
                           \E j \in 1..(i - 1) : cs[j].op = "WriteHeader"
                /\ \A j \in 1..Len(cs) :
                       cs[j].op = "WriteHeader" =>
                           /\ \E a \in 1..(j - 1) : cs[a] = SetCall("Content-Encoding", "gzip")
                           /\ \E d \in 1..(j - 1) : cs[d] = DelCall("Content-Length")
                /\ StatusSent(r) => \E j \in 1..Len(cs) : cs[j].op = "WriteHeader"

\* Witness of C10: a compressed response whose compressed bytes have all
\* reached the real writer.
C10_Witness ==
    \E r \in Reqs :
        /\ Compressed(r)
        /\ AllOk(rw[r].calls)
        /\ Len(Select(rw[r].calls, {"Write"})) = 3

\* The mode of r's decorator.
Mode(g) ==
    IF ~g.wroteHeader THEN "uncommitted"
    ELSE IF g.passthrough THEN "pass-through"
    ELSE "buffering"

RECURSIVE BeforeFlush(_)
\* The calls of a real writer's log that precede the flush step, which
\* opens with Set(Content-Encoding, gzip) and the only Del of the chain.
BeforeFlush(calls) ==
    IF calls = <<>> \/ Head(calls).op = "Del" \/ Head(calls) = SetCall("Content-Encoding", "gzip")
    THEN <<>>
    ELSE <<Head(calls)>> \o BeforeFlush(Tail(calls))

\* The bytes the decorator of r handed to the real writer verbatim.
Verbatim(r) == Bytes(BeforeFlush(rw[r].calls))

\* The mode chosen is final: a decorator that has committed keeps its mode.
ModeStable ==
    \A r \in Reqs :
        (hw[r] = "grw" /\ Mode(grw[r]) # "uncommitted") => Mode(grw'[r]) = Mode(grw[r])

\* The mode is the one the Content-Type at the first commit asks for, and
\* bytes are forwarded verbatim or buffered, never both, and one of the two
\* once the handler wrote a byte.
ModeExclusive ==
    \A r \in Reqs :
        hw[r] = "grw" =>
            /\ Mode(grw[r]) =
                   (IF ~Committed(hist[r]) THEN "uncommitted"
                    ELSE IF IsCompressible(TypeAtCommit(hist[r])) THEN "buffering"
                    ELSE "pass-through")
            /\ ~(Verbatim(r) # "" /\ grw[r].body # "")
            /\ Bytes(hist[r]) # "" =>
                   \/ Verbatim(r) = Bytes(hist[r]) /\ grw[r].body = ""
                   \/ Verbatim(r) = "" /\ grw[r].body = Bytes(hist[r])

\* C11: the decorator's mode is chosen once, at the first status commit,
\* from the Content-Type of that moment, and never changes afterwards, also
\* when the handler changes Content-Type later; a response never has both
\* bytes forwarded verbatim and bytes in the buffer, and has exactly one of
\* the two once the handler wrote a body byte.
C11_ModeExclusivity == [](ModeExclusive) /\ [][ModeStable]_vars

\* Witness of C11: a buffering decorator with bytes in its buffer whose
\* handler has since set a Content-Type that is not compressible.
C11_Witness ==
    \E r \in Reqs :
        /\ Buffering(r)
        /\ grw[r].body # ""
        /\ rw[r].header["Content-Type"] # <<>>
        /\ ~IsCompressible(Header_Get(rw[r].header, "Content-Type"))

\* C12: while the decorator buffers and the handler has not returned, the
\* real writer has received no WriteHeader and no Write (only the
\* handler's header calls), and every Write the handler made was appended
\* to the buffer and returned the length of its slice and a nil error.
C12_BufferingIsolation ==
    \A r \in Reqs :
        Buffering(r) =>
            /\ pc[r] = "handler" =>
                   /\ Select(rw[r].calls, {"WriteHeader", "Write"}) = <<>>
                   /\ ~rw[r].wroteHeader
                   /\ rw[r].calls = Select(hist[r], {"Set"})
            /\ grw[r].body = Bytes(hist[r])
            /\ \A i \in 1..Len(hist[r]) :
                   hist[r][i].op = "Write" =>
                       hist[r][i].n = Len(hist[r][i].v) /\ hist[r][i].ok

\* Witness of C12: a handler still running in buffering mode after two
\* Writes, one of them with bytes.
C12_Witness ==
    \E r \in Reqs :
        /\ pc[r] = "handler"
        /\ Buffering(r)
        /\ Len(Select(hist[r], {"Write"})) >= 2
        /\ grw[r].body # ""

\* C13 (as stated): the chain makes at most one WriteHeader call on the
\* real writer, with and without gzip.
C13_AtMostOneWriteHeader ==
    \A r \in Reqs : Len(Select(rw[r].calls, {"WriteHeader"})) <= 1

\* C13 (amended): the real writer commits one status, that of the first
\* WriteHeader or Write it receives, and no later call changes it.  With
\* gzip accepted it receives at most one WriteHeader call, later ones of
\* the handler are not forwarded; without gzip the statusWriter forwards
\* every WriteHeader call of the handler, and the real writer ignores all
\* but the first commit.
C13_StatusOnce ==
    \A r \in Reqs :
        /\ Committed(rw[r].calls) =>
               rw[r].wroteHeader /\ rw[r].status = FirstCode(rw[r].calls)
        /\ hw[r] = "grw" => Len(Select(rw[r].calls, {"WriteHeader"})) <= 1
        /\ hw[r] = "sw" =>
               Select(rw[r].calls, {"WriteHeader"}) = Select(hist[r], {"WriteHeader"})

\* Witness of C13: a finished request with gzip accepted whose handler
\* called WriteHeader twice with different codes, and whose real writer
\* got one WriteHeader.
C13_Witness ==
    \E r \in Reqs :
        /\ pc[r] = "done"
        /\ hw[r] = "grw"
        /\ \E i \in 1..Len(hist[r]), j \in 1..Len(hist[r]) :
               /\ i < j
               /\ hist[r][i].op = "WriteHeader" /\ hist[r][j].op = "WriteHeader"
               /\ hist[r][i].code # hist[r][j].code
        /\ Len(Select(rw[r].calls, {"WriteHeader"})) = 1

\* The pool and compressor calls of one flush step, in order.
FlushOps == <<"Get", "Reset", "Write", "Close", "Put">>

\* How often a call occurs in a log of flush calls.
Count(log, op) == Cardinality({i \in 1..Len(log) : log[i] = op})

\* C14: a flush step takes one compressor from the pool, after the handler
\* has returned, resets it to the request's writer before feeding it, feeds
\* it the whole buffer in one call, closes it and puts it back; a request
\* that does not flush (no gzip accepted, pass-through, nothing buffered)
\* takes none; a completed request has put back what it took, so that
\* every instance made is then in the pool or held by another request.
C14_CompressorLifecycle ==
    \A r \in Reqs :
        /\ ops[r] = SubSeq(FlushOps, 1, Len(ops[r]))
        /\ ops[r] # <<>> =>
               /\ pc[r] \in {"L87", "L88", "L89", "L90", "log", "finish", "done"}
               /\ Buffering(r) /\ grw[r].body # ""
        /\ (held[r] # 0) = (Len(ops[r]) \in 1..4)
        /\ pc[r] \in {"L88", "L89", "L90"} =>
               /\ gz[held[r]].w = r
               /\ pc[r] = "L88" => gz[held[r]].buf = "" /\ ~gz[held[r]].wroteHeader
               /\ (pc[r] # "L88" /\ ~gz[held[r]].err) => gz[held[r]].buf = grw[r].body
               /\ pc[r] = "L90" => gz[held[r]].closed \/ gz[held[r]].err
        /\ Returned(r) =>
               /\ ops[r] \in {<<>>, FlushOps}
               /\ Count(ops[r], "Get") = Count(ops[r], "Put")
               /\ (hw[r] = "sw" \/ grw[r].passthrough \/ grw[r].body = "") => ops[r] = <<>>
               /\ held[r] = 0
               /\ (pool \cup {held[q] : q \in Reqs}) \ {0} = 1..made

\* Witness of C14: a finished request that flushed, with its compressor
\* back in the pool.
C14_Witness ==
    \E r \in Reqs :
        /\ pc[r] = "done"
        /\ ops[r] = FlushOps
        /\ made = 1
        /\ pool = {1}

\* C15: when the request accepts gzip and the handler returns without a
\* WriteHeader or Write, the layer makes no call on the real writer (its
\* log holds the handler's header calls only), leaves Content-Encoding and
\* Content-Length as the handler set them, and takes no compressor.
C15_SilentHandler ==
    \A r \in Reqs :
        (/\ AcceptsGzip(req[r])
         /\ pc[r] \in {"L81", "log", "finish", "done"}
         /\ ~Committed(hist[r]))
        => /\ rw[r].calls = hist[r]
           /\ Select(rw[r].calls, {"WriteHeader", "Write", "Del"}) = <<>>
           /\ rw[r].header = HeaderAfter(hist[r], Len(hist[r]))
           /\ rw[r].header["Content-Encoding"] # <<"gzip">>
           /\ ops[r] = <<>>
           /\ held[r] = 0

\* Witness of C15: a finished request with gzip accepted whose handler set
\* a compressible Content-Type and a Content-Length and did nothing else.
C15_Witness ==
    \E r \in Reqs :
        /\ pc[r] = "done"
        /\ AcceptsGzip(req[r])
        /\ ~Committed(hist[r])
        /\ IsCompressible(Header_Get(rw[r].header, "Content-Type"))
        /\ rw[r].header["Content-Length"] # <<>>

====
